---- MODULE Spec2Model ----
(***************************************************************************)
(* The ClickHouse output of clickhouse_sinker (output/clickhouse.go):      *)
(* Send / loopWrite / write / shouldReconnect.                             *)
(*                                                                         *)
(* Every batch handed to Send is one task.  A task's steps are the points  *)
(* at which loopWrite can be observed from outside: Send's increment of    *)
(* the backlog gauge, one whole call of write, the code of loopWrite that  *)
(* runs after write has returned, and the end of time.Sleep.  The          *)
(* connection pool, the driver and the statistics sinks are collaborators: *)
(* the results of Begin, Prepare, Exec, Commit and ReConnect are inputs,   *)
(* the statistics are counters.                                            *)
(***************************************************************************)
EXTENDS Integers, Sequences, FiniteSets, TLC

\* ---------------------------------------------------------------- bounds
NumBatches == 2       \* batches handed to Send, possibly concurrently
MaxRows == 2          \* len(batch.MsgRows) <= MaxRows
MaxRealSize == 2      \* batch.RealSize in 1..MaxRealSize
MaxRetryTimes == 2    \* chCfg.RetryTimes in 0..MaxRetryTimes
MaxAttempts == 3      \* calls of write per batch that are explored
MaxCols == 2          \* rows of the catalog result, and len(taskCfg.Dims)

BatchIds == 1..NumBatches

\* ---------------------------------------------------------------- errors
\* An error value: the text of err.Error() and whether errors.Wrap(err, "")
\* was applied to it.  Nil is the nil error.
Nil == [text |-> "nil", wrapped |-> FALSE]

\* The errors a collaborator can return; context.Canceled is returned only
\* once the context has been cancelled.
ErrTexts(isCancelled) ==
  {"connection refused", "bad connection", "syntax error"}
    \cup (IF isCancelled THEN {"context canceled"} ELSE {})

Errs(isCancelled) == [text : ErrTexts(isCancelled), wrapped : {FALSE}]

Results(isCancelled) == {Nil} \cup Errs(isCancelled)

\* errors.Wrap(err, ""): a new error whose text is ": " followed by err's text
\* and whose cause is err.
Wrap(err) == [text |-> err.text, wrapped |-> TRUE]

\* strings.Contains(err.Error(), sub): the prefix Wrap adds contains neither
\* substring, so containment is decided by the text of the cause.
Contains(err, sub) == err.text = sub

\* std_errors.Is(err, context.Canceled): follows the Unwrap chain of Wrap.
IsCanceled(err) == err.text = "context canceled"

\* func shouldReconnect(err error) bool
shouldReconnect(err) ==
  Contains(err, "connection refused") \/ Contains(err, "bad connection")

\* ---------------------------------------------------------------- batches
\* A row is TRUE when msgRow.Row is non-nil and FALSE when it is nil.
RowSeqs == UNION {[1..n -> BOOLEAN] : n \in 0..MaxRows}

Batches == [MsgRows : RowSeqs, RealSize : 1..MaxRealSize]

\* ---------------------------------------------------------------- write
\* What one call of write did, in order: the calls made on the connection,
\* the transaction and the statement, and on the statistics, each with the
\* text of the error it returned ("nil" for none) and, for Exec, its row.
Ev(op, row, res) == [op |-> op, row |-> row, res |-> res.text]

\* The inputs of one call of write: the result of every call it can make.
\* Results that the call cannot reach are Nil.
AllNil(n) == [i \in 1..n |-> Nil]

Envs(b, isCancelled) ==
  LET n == Len(b.MsgRows)
      R == Results(isCancelled)
      E == Errs(isCancelled)
      RC == {Nil, [text |-> "connection refused", wrapped |-> FALSE]}
  IN  [begin : E, prepare : {Nil}, exec : {AllNil(n)}, commit : {Nil}, reconnect : RC]
      \cup [begin : {Nil}, prepare : E, exec : {AllNil(n)}, commit : {Nil}, reconnect : RC]
      \cup [begin : {Nil}, prepare : {Nil}, exec : [1..n -> R], commit : R, reconnect : RC]

\* if shouldReconnect(err) { _ = conn.ReConnect(); ClickhouseReconnectTotal.Inc() }
reconnectIf(err, env) ==
  IF shouldReconnect(err)
  THEN << Ev("ReConnect", 0, env.reconnect), Ev("IncReconnect", 0, Nil) >>
  ELSE << >>

\* The loop ends at the first row whose Exec fails.
RECURSIVE execLoopBreakOnError(_, _, _, _)
execLoopBreakOnError(rows, env, i, st) ==
  IF i > Len(rows) \/ st.err # Nil THEN st
  ELSE IF rows[i]
       THEN LET r == env.exec[i]
            IN  execLoopBreakOnError(rows, env, i + 1,
                  [err    |-> IF r # Nil THEN Wrap(r) ELSE Nil,
                   numErr |-> IF r # Nil THEN st.numErr + 1 ELSE st.numErr,
                   log    |-> Append(st.log, Ev("Exec", i, r))])
       ELSE execLoopBreakOnError(rows, env, i + 1, st)

\* for _, msgRow := range batch.MsgRows { ... }: st is the loop's state
\* [err, numErr, log] before row i.
RECURSIVE execLoop(_, _, _, _)
execLoop(rows, env, i, st) ==
  IF i > Len(rows) THEN st
  ELSE IF rows[i]
       THEN LET r == env.exec[i]
            IN  execLoop(rows, env, i + 1,
                  [err    |-> IF r # Nil THEN Wrap(r) ELSE Nil,
                   numErr |-> IF r # Nil THEN st.numErr + 1 ELSE st.numErr,
                   log    |-> Append(st.log, Ev("Exec", i, r))])
       ELSE execLoop(rows, env, i + 1, st)

\* stmt.Close is not deferred: it is called on the success path only.
writeRowsCloseOnSuccess(b, env) ==
    LET l1 == << Ev("GetConn", 0, Nil), Ev("Begin", 0, env.begin) >>
    IN
    IF env.begin # Nil
    THEN [err |-> env.begin, log |-> l1 \o reconnectIf(env.begin, env)]
    ELSE
      LET l2 == Append(l1, Ev("Prepare", 0, env.prepare))
      IN
      IF env.prepare # Nil
      THEN [err |-> env.prepare, log |-> l2 \o reconnectIf(env.prepare, env)]
      ELSE
        LET st == execLoop(b.MsgRows, env, 1, [err |-> Nil, numErr |-> 0, log |-> l2])
        IN
        IF st.err # Nil
        THEN [err |-> st.err, log |-> st.log]
        ELSE
          LET l3 == Append(st.log, Ev("Commit", 0, env.commit))
          IN
          IF env.commit # Nil
          THEN [err |-> Wrap(env.commit),
                log |-> l3 \o reconnectIf(Wrap(env.commit), env)]
          ELSE [err |-> Nil,
                log |-> l3 \o << Ev("AddFlushed", 0, Nil), Ev("Close", 0, Nil) >>]

\* write from pool.GetConn on: the returned error and the calls made.
writeRows(b, env) ==
    LET l1 == << Ev("GetConn", 0, Nil), Ev("Begin", 0, env.begin) >>
    IN
    IF env.begin # Nil
    THEN [err |-> env.begin, log |-> l1 \o reconnectIf(env.begin, env)]
    ELSE
      LET l2 == Append(l1, Ev("Prepare", 0, env.prepare))
      IN
      IF env.prepare # Nil
      THEN [err |-> env.prepare, log |-> l2 \o reconnectIf(env.prepare, env)]
      ELSE
        LET st == execLoop(b.MsgRows, env, 1, [err |-> Nil, numErr |-> 0, log |-> l2])
        IN
        IF st.err # Nil
        THEN [err |-> st.err, log |-> Append(st.log, Ev("Close", 0, Nil))]
        ELSE
          LET l3 == Append(st.log, Ev("Commit", 0, env.commit))
          IN
          IF env.commit # Nil
          THEN [err |-> Wrap(env.commit),
                log |-> l3 \o reconnectIf(Wrap(env.commit), env)
                           \o << Ev("Close", 0, Nil) >>]
          ELSE [err |-> Nil,
                log |-> l3 \o << Ev("AddFlushed", 0, Nil), Ev("Close", 0, Nil) >>]

\* Without the test of len(batch.MsgRows).
writeAlways(b, env) == writeRows(b, env)

\* func (c *ClickHouse) write(batch) error: the returned error and the calls made.
write(b, env) ==
  IF Len(b.MsgRows) = 0 THEN [err |-> Nil, log |-> << >>]
  ELSE writeRows(b, env)

\* The rows counted instead of the declared size.
flushedRowsCounted(b) == Len(b.MsgRows)

\* FlushMsgsTotal.Add(float64(batch.RealSize))
flushedRows(b) == b.RealSize

\* The number of events of the log with the given op.
RECURSIVE Count(_, _)
Count(log, op) ==
  IF log = << >> THEN 0
  ELSE (IF Head(log).op = op THEN 1 ELSE 0) + Count(Tail(log), op)

\* The transaction that write began is still open when write returns: Begin
\* returned a transaction and neither tx.Commit nor tx.Rollback was called.
txOpen(log) ==
  /\ \E i \in 1..Len(log) : log[i].op = "Begin" /\ log[i].res = "nil"
  /\ Count(log, "Commit") = 0
  /\ Count(log, "Rollback") = 0

\* ---------------------------------------------------------------- loopWrite
\* Without the test of context.Canceled.
loopWriteBranchNoCancel(err, n) ==
  IF err = Nil THEN "success"
  ELSE IF n - 1 > 0 THEN "giveup"
  ELSE "sleep"

\* The callback is called whenever the loop ends without a loss.
loopWriteBranchCallbackOnQuit(err, n) ==
  IF err = Nil \/ IsCanceled(err) THEN "success"
  ELSE IF n - 1 > 0 THEN "giveup"
  ELSE "sleep"

\* What loopWrite does with the error of write when times is n:
\*   "success"    callback(batch); return
\*   "cancelled"  return
\*   "giveup"     times--; FlushMsgsErrorTotal.Add(RealSize); return
\*   "sleep"      times--; time.Sleep
loopWriteBranch(err, n) ==
  IF err = Nil THEN "success"
  ELSE IF IsCanceled(err) THEN "cancelled"
  ELSE IF n - 1 > 0 THEN "giveup"
  ELSE "sleep"

\* The decrement is missing.
deferredDecMissing(n) == n

\* defer statistics.FlushBatchBacklog.WithLabelValues(c.taskCfg.Name).Dec()
deferredDec(n) == n - 1

\* ---------------------------------------------------------------- initSchema
\* A string that initSchema builds or rewrites is the sequence of its pieces;
\* the string is their concatenation.

\* chCfg.DB and taskCfg.TableName
DB == "db"
TableName == "table"

\* Column names, types and default kinds that system.columns returns.
ColNames == {"id", "name"}

ColTypes ==
  { << "Int32" >>,
    << "Nullable(", "String", ")" >>,
    << "LowCardinality(", "Nullable(", "String", ")", ")" >>,
    << "Tuple(", "LowCardinality(", "String", ")", ", ", "Int32", ")" >> }

DefaultKinds == {"", "MATERIALIZED"}

\* rs.Scan(&name, &typ, &defaultKind) assigns its destinations in order and
\* stops at the first that fails: scan is the number of destinations assigned,
\* NumDest when Scan returned nil.
NumDest == 3

CatalogRows ==
  [name : ColNames, type : ColTypes, defaultKind : DefaultKinds, scan : 0..NumDest]

Catalogs == UNION {[1..n -> CatalogRows] : n \in 0..MaxCols}

\* util.GetSourceName(name): a function of the name.
GetSourceName(name) == << "source", name >>

\* util.StringContains(c.taskCfg.ExcludeColumns, name)
StringContains(list, name) == name \in list

\* taskCfg.Dims
ConfigDims ==
  UNION {[1..n -> {[Name |-> c, Type |-> ty, SourceName |-> GetSourceName(c)] :
                     c \in ColNames, ty \in ColTypes}] : n \in 0..MaxCols}

\* taskCfg: AutoSchema, ExcludeColumns, Dims.  What a mode does not read is empty.
SchemaCfgs ==
  [AutoSchema : {TRUE}, ExcludeColumns : SUBSET ColNames, Dims : {<< >>}]
    \cup [AutoSchema : {FALSE}, ExcludeColumns : {{}}, Dims : ConfigDims]

\* lowCardinalityRegexp.ReplaceAllString(typ, "$1") with the regexp
\* LowCardinality\((.+)\): the leftmost "LowCardinality(" that a piece and
\* then a ")" follow, up to the last ")" (.+ is greedy), is replaced by what
\* is between them.  Nothing after the last ")" can match again.
lowCardinalityReplace(typ) ==
  LET closes(i) == {j \in (i + 2)..Len(typ) : typ[j] = ")"}
      starts == {i \in 1..Len(typ) : typ[i] = "LowCardinality(" /\ closes(i) # {}}
  IN  IF starts = {} THEN typ
      ELSE LET i == CHOOSE x \in starts : \A y \in starts : x <= y
               j == CHOOSE x \in closes(i) : \A y \in closes(i) : x >= y
           IN  SubSeq(typ, 1, i - 1) \o SubSeq(typ, i + 1, j - 1)
                 \o SubSeq(typ, j + 1, Len(typ))

\* for rs.Next() { ... }: st is [name, typ, defaultKind, Dims] before row i.
\* The error of Scan is dropped; a destination that Scan did not assign keeps
\* the value it had.
RECURSIVE rowsLoop(_, _, _, _)
rowsLoop(rs, i, st, exclude) ==
  IF i > Len(rs) THEN st
  ELSE
    LET name == IF rs[i].scan >= 1 THEN rs[i].name ELSE st.name
        scanned == IF rs[i].scan >= 2 THEN rs[i].type ELSE st.typ
        defaultKind == IF rs[i].scan >= 3 THEN rs[i].defaultKind ELSE st.defaultKind
        typ == lowCardinalityReplace(scanned)
    IN  rowsLoop(rs, i + 1,
          [name |-> name, typ |-> typ, defaultKind |-> defaultKind,
           Dims |-> IF ~StringContains(exclude, name) /\ defaultKind # "MATERIALIZED"
                    THEN Append(st.Dims,
                           [Name |-> name, Type |-> typ,
                            SourceName |-> GetSourceName(name)])
                    ELSE st.Dims],
          exclude)

\* c.Dims after the first part of initSchema (lines 165-191).
resolveDims(cfg, rs) ==
  IF cfg.AutoSchema
  THEN rowsLoop(rs, 1, [name |-> "", typ |-> << >>, defaultKind |-> "", Dims |-> << >>],
                cfg.ExcludeColumns).Dims
  ELSE [i \in 1..Len(cfg.Dims) |->
          [Name |-> cfg.Dims[i].Name, Type |-> cfg.Dims[i].Type,
           SourceName |-> cfg.Dims[i].SourceName]]

\* strings.Join(elems, sep)
RECURSIVE Join(_, _)
Join(elems, sep) ==
  IF elems = << >> THEN << >>
  ELSE IF Len(elems) = 1 THEN << elems[1] >>
  ELSE << elems[1], sep >> \o Join(Tail(elems), sep)

\* c.dms: the names of c.Dims
dmsOf(Dims) == [i \in 1..Len(Dims) |-> Dims[i].Name]

\* One "?" too many.
paramsOneMore(Dims) == [i \in 1..(Len(Dims) + 1) |-> "?"]

\* params: make([]string, len(c.Dims)), each "?"
params(Dims) == [i \in 1..Len(Dims) |-> "?"]

\* c.prepareSQL
prepareSQLOf(Dims) ==
  << "INSERT INTO ", DB, ".", TableName, " (" >> \o Join(dmsOf(Dims), ",")
    \o << ") ", "VALUES (" >> \o Join(params(Dims), ",") \o << ")" >>

\* ---------------------------------------------------------------- state
VARIABLES
  RetryTimes,     \* chCfg.RetryTimes
  cancelled,      \* the enclosing context has been cancelled
  pc,             \* per batch: where its Send call is
  batch,          \* per batch: the batch handed to Send
  times,          \* per batch: loopWrite's local times
  ret,            \* per batch: loopWrite's local err, with the calls that the
                  \*   call of write that returned it made
  attempts,       \* per batch: calls of write so far
  reconnects,     \* per batch: calls of ReConnect so far
  callbacks,      \* per batch: calls of callback so far
  losses,         \* per batch: additions to FlushMsgsErrorTotal so far
  FlushBatchBacklog,
  FlushMsgsTotal,
  FlushMsgsErrorTotal,
  ClickhouseReconnectTotal,
  schema          \* what initSchema was given and what it left in c.Dims, c.dms
                  \*   and c.prepareSQL

vars == << RetryTimes, cancelled, pc, batch, times, ret, attempts, reconnects,
           callbacks, losses, FlushBatchBacklog, FlushMsgsTotal,
           FlushMsgsErrorTotal, ClickhouseReconnectTotal, schema >>

\* The fields of NewClickHouse's result that initSchema sets.
NoSchema ==
  [status |-> "new",
   cfg |-> [AutoSchema |-> FALSE, ExcludeColumns |-> {}, Dims |-> << >>],
   catalog |-> << >>, Dims |-> << >>, dms |-> << >>, prepareSQL |-> << >>]

NoBatch == [MsgRows |-> << >>, RealSize |-> 0]
NoRet == [err |-> Nil, log |-> << >>]

\* Where a Send call that has returned ended, and where one that has not is.
Terminal == {"success", "cancelled", "giveup"}
InFlight == {"write", "returned", "sleep"}

Init ==
  /\ RetryTimes \in 0..MaxRetryTimes
  /\ cancelled = FALSE
  /\ pc = [t \in BatchIds |-> "idle"]
  /\ batch = [t \in BatchIds |-> NoBatch]
  /\ times = [t \in BatchIds |-> 0]
  /\ ret = [t \in BatchIds |-> NoRet]
  /\ attempts = [t \in BatchIds |-> 0]
  /\ reconnects = [t \in BatchIds |-> 0]
  /\ callbacks = [t \in BatchIds |-> 0]
  /\ losses = [t \in BatchIds |-> 0]
  /\ FlushBatchBacklog = 0
  /\ FlushMsgsTotal = 0
  /\ FlushMsgsErrorTotal = 0
  /\ ClickhouseReconnectTotal = 0
  /\ schema = NoSchema

\* Send up to the call of write: the backlog gauge is incremented, loopWrite
\* seeds times and registers the deferred decrement.
Send(t, b) ==
  /\ pc[t] = "idle"
  /\ pc' = [pc EXCEPT ![t] = "write"]
  /\ batch' = [batch EXCEPT ![t] = b]
  /\ times' = [times EXCEPT ![t] = RetryTimes]
  /\ FlushBatchBacklog' = FlushBatchBacklog + 1
  /\ UNCHANGED << RetryTimes, cancelled, ret, attempts, reconnects, callbacks,
                  losses, FlushMsgsTotal, FlushMsgsErrorTotal,
                  ClickhouseReconnectTotal, schema >>

\* err = c.write(batch): one whole call of write.
Write(t, env) ==
  /\ pc[t] = "write"
  /\ attempts[t] < MaxAttempts
  /\ LET r == write(batch[t], env)
     IN  /\ ret' = [ret EXCEPT ![t] = r]
         /\ FlushMsgsTotal' =
              FlushMsgsTotal + Count(r.log, "AddFlushed") * flushedRows(batch[t])
         /\ ClickhouseReconnectTotal' =
              ClickhouseReconnectTotal + Count(r.log, "IncReconnect")
         /\ reconnects' = [reconnects EXCEPT ![t] = @ + Count(r.log, "ReConnect")]
  /\ attempts' = [attempts EXCEPT ![t] = @ + 1]
  /\ pc' = [pc EXCEPT ![t] = "returned"]
  /\ UNCHANGED << RetryTimes, cancelled, batch, times, callbacks, losses,
                  FlushBatchBacklog, FlushMsgsErrorTotal, schema >>

\* The return after the addition to FlushMsgsErrorTotal is missing: the loop
\* sleeps and goes on.
loopWriteNoReturnAfterLoss(t) ==
  /\ pc[t] = "returned"
  /\ LET br == loopWriteBranch(ret[t].err, times[t])
     IN  /\ pc' = [pc EXCEPT ![t] = IF br = "giveup" THEN "sleep" ELSE br]
         /\ callbacks' = [callbacks EXCEPT ![t] = IF br = "success" THEN @ + 1 ELSE @]
         /\ times' = [times EXCEPT ![t] = IF br \in {"giveup", "sleep"} THEN @ - 1 ELSE @]
         /\ losses' = [losses EXCEPT ![t] = IF br = "giveup" THEN @ + 1 ELSE @]
         /\ FlushMsgsErrorTotal' =
              IF br = "giveup" THEN FlushMsgsErrorTotal + batch[t].RealSize
              ELSE FlushMsgsErrorTotal
         /\ FlushBatchBacklog' =
              IF br \in Terminal \ {"giveup"} THEN deferredDec(FlushBatchBacklog)
              ELSE FlushBatchBacklog
  /\ UNCHANGED << RetryTimes, cancelled, batch, ret, attempts, reconnects,
                  FlushMsgsTotal, ClickhouseReconnectTotal, schema >>

\* loopWrite after write has returned, up to its return or to time.Sleep.
\* Every return runs the deferred decrement of the backlog gauge.
loopWrite(t) ==
  /\ pc[t] = "returned"
  /\ LET br == loopWriteBranch(ret[t].err, times[t])
     IN  /\ pc' = [pc EXCEPT ![t] = br]
         /\ callbacks' = [callbacks EXCEPT ![t] = IF br = "success" THEN @ + 1 ELSE @]
         /\ times' = [times EXCEPT ![t] = IF br \in {"giveup", "sleep"} THEN @ - 1 ELSE @]
         /\ losses' = [losses EXCEPT ![t] = IF br = "giveup" THEN @ + 1 ELSE @]
         /\ FlushMsgsErrorTotal' =
              IF br = "giveup" THEN FlushMsgsErrorTotal + batch[t].RealSize
              ELSE FlushMsgsErrorTotal
         /\ FlushBatchBacklog' =
              IF br \in Terminal THEN deferredDec(FlushBatchBacklog)
              ELSE FlushBatchBacklog
  /\ UNCHANGED << RetryTimes, cancelled, batch, ret, attempts, reconnects,
                  FlushMsgsTotal, ClickhouseReconnectTotal, schema >>

\* time.Sleep(10 * time.Second) returns; the loop calls write again.  err is
\* not read again before that call assigns it.
Sleep(t) ==
  /\ pc[t] = "sleep"
  /\ pc' = [pc EXCEPT ![t] = "write"]
  /\ ret' = [ret EXCEPT ![t] = NoRet]
  /\ UNCHANGED << RetryTimes, cancelled, batch, times, attempts, reconnects,
                  callbacks, losses, FlushBatchBacklog, FlushMsgsTotal,
                  FlushMsgsErrorTotal, ClickhouseReconnectTotal, schema >>

\* The enclosing context is cancelled.  Nothing in this file reads the
\* context: from now on the driver may return context.Canceled.
Cancel ==
  /\ ~cancelled
  /\ cancelled' = TRUE
  /\ UNCHANGED << RetryTimes, pc, batch, times, ret, attempts, reconnects,
                  callbacks, losses, FlushBatchBacklog, FlushMsgsTotal,
                  FlushMsgsErrorTotal, ClickhouseReconnectTotal, schema >>

\* One batch is handed to Send.
Next ==
  \/ \E b \in Batches : Send(1, b)
  \/ \E env \in Envs(batch[1], cancelled) : Write(1, env)
  \/ loopWrite(1)
  \/ Sleep(1)
  \/ Cancel

Spec == Init /\ [][Next]_vars

\* NumBatches batches are handed to Send by concurrent callers.  loopWrite
\* reads of write's result only whether it is nil or context.Canceled, so
\* the batches have at most one row and only Begin fails, with an error that
\* asks for no reconnect.
ConcBatches == {b \in Batches : Len(b.MsgRows) <= 1 /\ b.RealSize = 1}

ConcEnvs(b, isCancelled) ==
  {e \in Envs(b, isCancelled) :
     /\ e.prepare = Nil /\ e.commit = Nil /\ e.reconnect = Nil
     /\ \A i \in DOMAIN e.exec : e.exec[i] = Nil
     /\ ~shouldReconnect(e.begin)}

NextConcurrent ==
  \/ \E t \in BatchIds, b \in ConcBatches : Send(t, b)
  \/ \E t \in BatchIds : \E env \in ConcEnvs(batch[t], cancelled) : Write(t, env)
  \/ \E t \in BatchIds : loopWrite(t)
  \/ \E t \in BatchIds : Sleep(t)
  \/ Cancel

SpecConcurrent == Init /\ [][NextConcurrent]_vars

\* func (c *ClickHouse) initSchema() error: queryOk is whether conn.Query
\* returned rows, rs the rows it returned.
initSchema(cfg, queryOk, rs) ==
  /\ schema.status = "new"
  /\ schema' =
       IF cfg.AutoSchema /\ ~queryOk
       THEN [schema EXCEPT !.status = "error", !.cfg = cfg]
       ELSE LET Dims == resolveDims(cfg, rs)
            IN  [status |-> "ready", cfg |-> cfg, catalog |-> rs, Dims |-> Dims,
                 dms |-> dmsOf(Dims), prepareSQL |-> prepareSQLOf(Dims)]
  /\ UNCHANGED << RetryTimes, cancelled, pc, batch, times, ret, attempts,
                  reconnects, callbacks, losses, FlushBatchBacklog,
                  FlushMsgsTotal, FlushMsgsErrorTotal, ClickhouseReconnectTotal >>

\* Init calls initSchema once; the static mode makes no query.
NextSchema ==
  /\ schema.status = "new"
  /\ \E cfg \in SchemaCfgs, queryOk \in BOOLEAN :
       \E rs \in (IF cfg.AutoSchema /\ queryOk THEN Catalogs ELSE {<< >>}) :
         initSchema(cfg, queryOk, rs)

\* initSchema does not read RetryTimes.
InitSchema == Init /\ RetryTimes = 0

SpecSchema == InitSchema /\ [][NextSchema]_vars

\* ---------------------------------------------------------------- claims
\* Some call of the log with the given op returned an error.
Failed(log, op) ==
  \E i \in 1..Len(log) : log[i].op = op /\ log[i].res # "nil"

\* C1: in write, if the Exec of at least one non-nil row returns an error, in
\* any position, tx.Commit is not called in that call of write and write
\* returns a non-nil error.
C1_RowErrorBlocksCommit ==
  \A t \in BatchIds :
    (pc[t] = "returned" /\ Failed(ret[t].log, "Exec"))
      => (Count(ret[t].log, "Commit") = 0 /\ ret[t].err # Nil)

\* C2: the callback is called at most once per batch, and only by the step of
\* loopWrite that follows a call of write that returned nil; never after a
\* failed or cancelled call.
C2_CallbackOnlyOnSuccess ==
  [][\A t \in BatchIds :
       callbacks'[t] # callbacks[t]
         => /\ callbacks[t] = 0 /\ callbacks'[t] = 1
            /\ pc[t] = "returned" /\ ret[t].err = Nil]_vars

\* The callback was called after a retry.
C2_Witness ==
  \E t \in BatchIds : callbacks[t] = 1 /\ attempts[t] > 1 /\ pc[t] = "success"

\* C3: with RetryTimes = N >= 1 and every call of write failing with an error
\* other than context.Canceled, loopWrite calls write exactly N times, sleeping
\* in between, adds RealSize to the loss counter only after the N-th failure
\* and returns without calling the callback.
C3_GiveUpAfterNFailures ==
  \A t \in BatchIds :
    RetryTimes >= 1 =>
      /\ pc[t] = "giveup" =>
           (attempts[t] = RetryTimes /\ losses[t] = 1 /\ callbacks[t] = 0)
      /\ pc[t] = "sleep" => (attempts[t] < RetryTimes /\ losses[t] = 0)

\* C4: with RetryTimes = N >= 1, a batch whose calls of write all fail with a
\* connection-broken error gets at most N calls of write and at most N calls
\* of ReConnect.  (Every call of write so far has reconnected exactly when
\* reconnects = attempts.)
C4_AtMostNAttempts ==
  \A t \in BatchIds :
    (RetryTimes >= 1 /\ reconnects[t] = attempts[t])
      => (attempts[t] <= RetryTimes /\ reconnects[t] <= RetryTimes)

\* C5: once the context is cancelled while loopWrite sleeps between two calls
\* of write, the loop ends there: write is not called again, the callback is
\* not called and the loss counter is not incremented.
C5_CancelEndsSleep ==
  [][\A t \in BatchIds :
       (cancelled /\ pc[t] = "sleep")
         => /\ pc'[t] # "write"
            /\ attempts'[t] = attempts[t]
            /\ callbacks'[t] = callbacks[t]
            /\ losses'[t] = losses[t]]_vars

\* C6: when a call of write returns an error that is context.Canceled, at any
\* attempt, loopWrite returns at once: times is not decremented, the callback
\* is not called, the loss counter is unchanged and write is not called again.
C6_CancelledWriteEndsLoop ==
  [][\A t \in BatchIds :
       /\ (pc[t] = "returned" /\ IsCanceled(ret[t].err) /\ pc'[t] # pc[t])
            => /\ pc'[t] = "cancelled"
               /\ times'[t] = times[t]
               /\ callbacks'[t] = callbacks[t]
               /\ losses'[t] = losses[t]
               /\ FlushMsgsErrorTotal' = FlushMsgsErrorTotal
       /\ pc[t] = "cancelled"
            => (pc'[t] = "cancelled" /\ attempts'[t] = attempts[t])]_vars

\* loopWrite returned on a cancelled second or later call of write, whose
\* error came wrapped from Exec or Commit.
C6_Witness ==
  \E t \in BatchIds :
    /\ pc[t] = "cancelled" /\ attempts[t] > 1
    /\ IsCanceled(ret[t].err) /\ ret[t].err.wrapped
    /\ callbacks[t] = 0 /\ losses[t] = 0 /\ times[t] = RetryTimes - (attempts[t] - 1)

\* C7: when a call of write fails with an error that shouldReconnect accepts,
\* raised by Begin, Prepare, Exec or Commit, and loopWrite goes on to another
\* call, that call of write called ReConnect and incremented the reconnect
\* counter exactly once; the result of ReConnect does not change the error
\* that write returns.
C7_ReconnectBeforeRetry ==
  \A t \in BatchIds :
    (pc[t] = "sleep" /\ shouldReconnect(ret[t].err))
      => /\ Count(ret[t].log, "ReConnect") = 1
         /\ Count(ret[t].log, "IncReconnect") = 1
         /\ \A i \in 2..Len(ret[t].log) :
              ret[t].log[i].op = "ReConnect"
                => ret[t].err.text = ret[t].log[i - 1].res

\* The first call of write for a non-empty batch: Begin, Prepare, the Exec of
\* every non-nil row and Commit returned nil.
AllSucceededFirst(t) ==
  /\ Len(batch[t].MsgRows) > 0
  /\ attempts[t] = 1
  /\ Count(ret[t].log, "Commit") = 1
  /\ \A i \in 1..Len(ret[t].log) : ret[t].log[i].res = "nil"

\* C8: for a non-empty batch whose first call of write has Begin, Prepare,
\* every Exec and Commit succeed, the callback is called exactly once, the
\* flushed-rows counter grows by batch.RealSize and the loss and reconnect
\* counters are unchanged.  (One batch, counters from 0.)
C8_AllSucceeded ==
  \A t \in BatchIds :
    AllSucceededFirst(t) =>
      /\ ret[t].err = Nil
      /\ pc[t] \in {"returned", "success"}
      /\ callbacks[t] = (IF pc[t] = "success" THEN 1 ELSE 0)
      /\ FlushMsgsTotal = batch[t].RealSize
      /\ FlushMsgsErrorTotal = 0
      /\ ClickhouseReconnectTotal = 0

\* Send returned after such a call for a batch whose declared size is not the
\* number of rows executed.
C8_Witness ==
  \E t \in BatchIds :
    /\ AllSucceededFirst(t) /\ pc[t] = "success" /\ callbacks[t] = 1
    /\ batch[t].RealSize # Count(ret[t].log, "Exec")
    /\ batch[t].RealSize # Len(batch[t].MsgRows)
    /\ FlushMsgsTotal = batch[t].RealSize

\* C9: for a batch with zero rows write returns nil without a call on the
\* pool, the connection, the transaction or the statement, and leaves the
\* flushed-rows and reconnect counters unchanged.  (One batch, counters from 0.)
C9_EmptyBatchNoOp ==
  \A t \in BatchIds :
    (attempts[t] >= 1 /\ Len(batch[t].MsgRows) = 0)
      => /\ ret[t].err = Nil
         /\ ret[t].log = << >>
         /\ FlushMsgsTotal = 0
         /\ ClickhouseReconnectTotal = 0

\* write has returned for a batch with zero rows.
C9_Witness ==
  \E t \in BatchIds :
    pc[t] = "returned" /\ attempts[t] = 1 /\ Len(batch[t].MsgRows) = 0

\* C10: with batches handed to Send concurrently, the backlog counter is the
\* number of batches handed to Send whose Send call has not returned; it is
\* never negative and is back at its initial value when all have returned.
C10_BacklogCountsInFlight ==
  /\ FlushBatchBacklog = Cardinality({t \in BatchIds : pc[t] \in InFlight})
  /\ FlushBatchBacklog >= 0

\* One Send call has returned while another batch is between two calls of write.
C10_Witness ==
  \E t, u \in BatchIds :
    /\ t # u /\ pc[t] \in Terminal /\ pc[u] = "sleep"
    /\ FlushBatchBacklog >= 1

\* The rows of the Exec calls of the log, in the order of the calls.
RECURSIVE ExecRows(_)
ExecRows(log) ==
  IF log = << >> THEN << >>
  ELSE (IF Head(log).op = "Exec" THEN << Head(log).row >> ELSE << >>)
         \o ExecRows(Tail(log))

\* The indices from i on of the non-nil rows, ascending.
RECURSIVE NonNilFrom(_, _)
NonNilFrom(rows, i) ==
  IF i > Len(rows) THEN << >>
  ELSE (IF rows[i] THEN << i >> ELSE << >>) \o NonNilFrom(rows, i + 1)

\* Prepare returned a statement in the call of write with this log.
Prepared(log) ==
  \E i \in 1..Len(log) : log[i].op = "Prepare" /\ log[i].res = "nil"

\* C13: in every call of write that gets past Prepare, Exec is called exactly
\* once for each non-nil row, in the batch's order, whether or not earlier
\* Exec calls failed; nil rows are not executed and no row is executed twice.
C13_ExecOncePerRowInOrder ==
  \A t \in BatchIds :
    (pc[t] = "returned" /\ Prepared(ret[t].log))
      => ExecRows(ret[t].log) = NonNilFrom(batch[t].MsgRows, 1)

\* The Exec of row 1 failed and row 2 was executed after it.
C13_Witness ==
  \E t \in BatchIds :
    /\ pc[t] = "returned" /\ Prepared(ret[t].log)
    /\ ExecRows(ret[t].log) = << 1, 2 >>
    /\ \E i \in 1..Len(ret[t].log) :
         ret[t].log[i].op = "Exec" /\ ret[t].log[i].row = 1 /\ ret[t].log[i].res # "nil"

\* C14: the flushed-rows counter never decreases and changes only in a call of
\* write whose Commit returned nil, by that batch's RealSize; a call of write
\* that returns an error (from Begin, Prepare, Exec or Commit) or that gets an
\* empty batch leaves it unchanged.
C14_FlushedOnlyOnCommit ==
  [][/\ FlushMsgsTotal' >= FlushMsgsTotal
     /\ FlushMsgsTotal' # FlushMsgsTotal
          => \E t \in BatchIds :
               /\ pc[t] = "write" /\ pc'[t] = "returned"
               /\ \E i \in 1..Len(ret'[t].log) :
                    ret'[t].log[i].op = "Commit" /\ ret'[t].log[i].res = "nil"
               /\ FlushMsgsTotal' = FlushMsgsTotal + batch[t].RealSize
     /\ \A t \in BatchIds :
          (pc[t] = "write" /\ pc'[t] = "returned"
             /\ (ret'[t].err # Nil \/ Len(batch[t].MsgRows) = 0))
            => FlushMsgsTotal' = FlushMsgsTotal]_vars

\* The counter changed in a second or later call of write, after a failed call
\* left it unchanged, by a RealSize that is not the number of rows.
C14_Witness ==
  \E t \in BatchIds :
    /\ pc[t] = "returned" /\ attempts[t] > 1 /\ ret[t].err = Nil
    /\ FlushMsgsTotal = batch[t].RealSize
    /\ batch[t].RealSize # Len(batch[t].MsgRows)

\* C15: for every batch at most one of "callback called" and "loss counter
\* incremented" ever happens, the loss counter is incremented at most once (by
\* RealSize), and once Send has returned (success, give-up or cancelled)
\* nothing more happens for the batch: write is not called again.
C15_TerminalOutcomesFinal ==
  [][\A t \in BatchIds :
       /\ callbacks'[t] + losses'[t] <= 1
       /\ losses'[t] # losses[t]
            => FlushMsgsErrorTotal' = FlushMsgsErrorTotal + batch[t].RealSize
       /\ pc[t] \in Terminal
            => /\ pc'[t] = pc[t]
               /\ attempts'[t] = attempts[t]
               /\ callbacks'[t] = callbacks[t]
               /\ losses'[t] = losses[t]]_vars

\* A batch was given up: its loss was counted once and the callback not called.
C15_Witness ==
  \E t \in BatchIds :
    /\ pc[t] = "giveup" /\ losses[t] = 1 /\ callbacks[t] = 0
    /\ FlushMsgsErrorTotal = batch[t].RealSize

\* C16: for every RetryTimes, 0 and 1 included, a batch whose calls of write
\* keep failing with errors other than context.Canceled is eventually given
\* up; loopWrite does not retry forever.  For finite runs: loopWrite sleeps
\* for another call of write only while retries remain.  (times only
\* decreases and giving up needs times > 0, so a loop that sleeps with
\* times <= 0 can never give up.)
C16_SleepsOnlyWithRetriesLeft ==
  \A t \in BatchIds : pc[t] = "sleep" => times[t] > 0

\* C17: a call of write prepares the insert statement at most once, and when
\* Prepare returned a statement, stmt.Close is called exactly once, as the last
\* call before write returns, whether the rows failed, Commit failed or all
\* succeeded.
C17_PrepareOnceCloseOnce ==
  \A t \in BatchIds :
    pc[t] = "returned" =>
      LET log == ret[t].log
      IN  /\ Count(log, "Prepare") <= 1
          /\ Prepared(log) => (Count(log, "Close") = 1 /\ log[Len(log)].op = "Close")
          /\ ~Prepared(log) => Count(log, "Close") = 0

\* write returned a row error after two Exec calls and closed the statement.
C17_Witness ==
  \E t \in BatchIds :
    /\ pc[t] = "returned" /\ Prepared(ret[t].log)
    /\ Count(ret[t].log, "Exec") = 2 /\ Failed(ret[t].log, "Exec")
    /\ ret[t].err # Nil
    /\ Count(ret[t].log, "Close") = 1

\* C18: a transaction that a call of write began is committed or rolled back
\* before that call returns; after a Prepare or Exec failure none is left open.
C18_NoOpenTransaction ==
  \A t \in BatchIds : pc[t] = "returned" => ~txOpen(ret[t].log)

\* initSchema returned nil in auto-discovery mode and every Scan returned nil.
AutoResolved ==
  /\ schema.status = "ready" /\ schema.cfg.AutoSchema
  /\ \A i \in 1..Len(schema.catalog) : schema.catalog[i].scan = NumDest

\* The type with every LowCardinality(X) in it replaced by X: the pieces of
\* the type without each "LowCardinality(" and the ")" that closes it.
Unwrapped(type) ==
  LET opens(i, j) == Cardinality({k \in i..j : type[k] \in
                        {"LowCardinality(", "Nullable(", "Tuple("}})
      closes(i, j) == Cardinality({k \in i..j : type[k] = ")"})
      wrappers == {i \in 1..Len(type) : type[i] = "LowCardinality("}
      balanced(i) == {j \in i..Len(type) : opens(i, j) = closes(i, j)}
      closing(i) == CHOOSE j \in balanced(i) : \A k \in balanced(i) : j <= k
      dropped == wrappers \cup {closing(i) : i \in {w \in wrappers : balanced(w) # {}}}
      kept(n) == {k \in 1..n : k \notin dropped}
  IN  [m \in 1..Cardinality(kept(Len(type))) |->
         type[CHOOSE k \in kept(Len(type)) : Cardinality(kept(k)) = m]]

\* The catalog rows that are neither excluded nor materialized, in catalog order.
KeptRows ==
  SelectSeq(schema.catalog,
            LAMBDA r : r.name \notin schema.cfg.ExcludeColumns
                         /\ r.defaultKind # "MATERIALIZED")

\* C11: in auto-discovery mode the resolved columns are exactly the catalog
\* rows, in catalog order, whose name is not in ExcludeColumns and whose
\* defaultKind is not "MATERIALIZED", each with LowCardinality(X) replaced by X
\* and any other type unchanged.  Stated for the results of which every Scan
\* returned nil.
C11_AutoDiscovery ==
  AutoResolved =>
    /\ Len(schema.Dims) = Len(KeptRows)
    /\ \A i \in 1..Len(schema.Dims) :
         /\ schema.Dims[i].Name = KeptRows[i].name
         /\ schema.Dims[i].Type = Unwrapped(KeptRows[i].type)

\* elems with sep between neighbours.
Separated(elems, sep) ==
  [i \in 1..(IF elems = << >> THEN 0 ELSE 2 * Len(elems) - 1) |->
     IF i % 2 = 1 THEN elems[(i + 1) \div 2] ELSE sep]

\* The insert statement for the given column names.
InsertStatement(names) ==
  << "INSERT INTO ", "db", ".", "table", " (" >> \o Separated(names, ",")
    \o << ") ", "VALUES (" >> \o Separated([i \in 1..Len(names) |-> "?"], ",")
    \o << ")" >>

\* The catalog (id, name, tags of a LowCardinality type, computed_col
\* materialized) with ExcludeColumns {name}.
ExampleCatalog ==
  << [name |-> "id", type |-> << "Int32" >>, defaultKind |-> "", scan |-> NumDest],
     [name |-> "name", type |-> << "String" >>, defaultKind |-> "", scan |-> NumDest],
     [name |-> "tags", type |-> << "LowCardinality(", "String", ")" >>,
      defaultKind |-> "", scan |-> NumDest],
     [name |-> "computed_col", type |-> << "Int32" >>,
      defaultKind |-> "MATERIALIZED", scan |-> NumDest] >>

ExampleDims ==
  resolveDims([AutoSchema |-> TRUE, ExcludeColumns |-> {"name"}, Dims |-> << >>],
              ExampleCatalog)

\* C12: after initSchema returned nil, in either mode, the insert statement
\* names exactly the resolved columns in resolved order and has one "?" per
\* resolved column (as many as len(Dims) = len(dms)); the example catalog
\* yields the columns (id, tags) and
\* INSERT INTO db.table (id,tags) VALUES (?,?).
C12_InsertStatement ==
  /\ schema.status = "ready" =>
       /\ Len(schema.dms) = Len(schema.Dims)
       /\ \A i \in 1..Len(schema.Dims) : schema.dms[i] = schema.Dims[i].Name
       /\ schema.prepareSQL = InsertStatement(schema.dms)
       /\ Cardinality({i \in 1..Len(schema.prepareSQL) : schema.prepareSQL[i] = "?"})
            = Len(schema.Dims)
  /\ dmsOf(ExampleDims) = << "id", "tags" >>
  /\ prepareSQLOf(ExampleDims) =
       << "INSERT INTO ", "db", ".", "table", " (", "id", ",", "tags", ") ",
          "VALUES (", "?", ",", "?", ")" >>

\* initSchema resolved two columns: in the static mode, and in auto-discovery
\* mode.
C12_Witness ==
  /\ schema.status = "ready"
  /\ Len(schema.Dims) = 2
  /\ schema.Dims[1].Name # schema.Dims[2].Name
  /\ schema.prepareSQL =
       << "INSERT INTO ", "db", ".", "table", " (", schema.Dims[1].Name, ",",
          schema.Dims[2].Name, ") ", "VALUES (", "?", ",", "?", ")" >>

\* C19: after initSchema returned nil in auto-discovery mode on a catalog
\* result whose column names are pairwise distinct, no column name occurs
\* twice in the resolved columns, whatever the Scan calls returned.
C19_UniqueNames ==
  (/\ schema.status = "ready" /\ schema.cfg.AutoSchema
   /\ \A i, j \in 1..Len(schema.catalog) :
        i # j => schema.catalog[i].name # schema.catalog[j].name)
    => \A i, j \in 1..Len(schema.Dims) :
         i # j => schema.Dims[i].Name # schema.Dims[j].Name

====
